---- MODULE Spec2Model ----
(***************************************************************************)
(* Model of the Tower installer (src/src/main.rs): the hardware capability *)
(* gate, the docker / docker-compose probes, the image presence check and  *)
(* the deployment sequencer, one run of `main` per behaviour.              *)
(*                                                                         *)
(* Byte counts are kept in KiB: every threshold of the program is a whole  *)
(* number of KiB, so comparing KiB counts decides what comparing bytes     *)
(* decides.  Command lines are sequences of words.  Of the two arms of     *)
(* every cfg!(target_os = "windows") the `sh -c` one is modelled; `cmd /C` *)
(* is handed the same line.  Every external process is an action pair: the *)
(* spawn, and the exit that .status() / .wait() blocks on.                 *)
(***************************************************************************)
EXTENDS Integers, Sequences, FiniteSets

VARIABLES
    subcommand,     \* matches.subcommand(): "deploy", "down" or "none"
    force,          \* sub_matches.is_present("force")
    source_dir,     \* value_of("source_dir"): a path or NoPath
    tar_dir,        \* value_of("tar_dir"): a path or NoPath
    processors,     \* host: system.get_processors().len()
    total_memory,   \* host: system.get_total_memory(), KiB
    disks,          \* host: available space of each disk, KiB
    bound_ports,    \* host: loopback ports a listener of another process holds
    probe,          \* host: the port probe of each run of the tool on it
    pc,             \* position of main
    child,          \* the external process main is blocked on, or NoChild
    image_idx,      \* check_images: index of the image being probed
    images_ok,      \* check_images: its return value ("unknown" before)
    resolved,       \* the PathBuf handed to the sequencer, or NoPath
    table,          \* rows added to the prettytable Table
    log             \* everything the run did, in order

vars == <<subcommand, force, source_dir, tar_dir, processors, total_memory,
          disks, bound_ports, probe, pc, child, image_idx, images_ok, resolved,
          table, log>>

input == <<subcommand, force, source_dir, tar_dir>>
host == <<processors, total_memory, disks, bound_ports, probe>>

----------------------------------------------------------------------------
(* Bounds of the model *)

MaxProcessors == 258
MaxDisks == 2

(* Program constants *)

U8 == 256
GiB == 1048576
RequiredCpuCores == 2
ExpectedCpuCores == 4
PrismaPort == 8811
ServerPort == 8800

RequiredMemory == 4 * GiB
ExpectedMemory == 8 * GiB
RequiredStorage == 40 * GiB
ExpectedStorage == 100 * GiB
RequiredPorts == <<PrismaPort>>

(* Hosts the runs are checked on: few and very many processors, memory and *)
(* disks around both thresholds, listeners on a required and on another    *)
(* port.                                                                   *)
ProcessorCounts == {n \in 0..MaxProcessors : n <= ExpectedCpuCores \/ n >= U8 - 1}
MemorySamples == {RequiredMemory - 1, RequiredMemory, ExpectedMemory}
DiskSamples == {20 * GiB, 50 * GiB}
DiskLists == UNION {[1..n -> DiskSamples] : n \in 0..MaxDisks}
HostPorts == {PrismaPort, ServerPort}

----------------------------------------------------------------------------
(* Sequence helpers *)

RECURSIVE SumSeq(_)
SumSeq(s) == IF s = <<>> THEN 0 ELSE Head(s) + SumSeq(Tail(s))

RECURSIVE Flatten(_)
Flatten(ss) == IF ss = <<>> THEN <<>> ELSE Head(ss) \o Flatten(Tail(ss))

Range(s) == {s[i] : i \in DOMAIN s}

----------------------------------------------------------------------------
(* Events of the log.  ev: "print", "table", "panic", "spawn", "spawnerr", *)
(* "sub" (one command of a shell line ran), "write", "exit".               *)

Event(ev, step, line, status) ==
    [ev |-> ev, step |-> step, line |-> line, status |-> status]

println(text) == Event("print", text, <<>>, "")
panic(msg) == Event("panic", msg, <<>>, "")

NoChild == [step |-> "", line |-> <<>>]
NoPath == [abs |-> FALSE, comps |-> <<>>]

----------------------------------------------------------------------------
(* The capability gate *)

(* Variant of get_color: both comparisons inclusive. *)
get_color_inclusive(actual, required, expected) ==
    IF actual <= required THEN "RED"
    ELSE IF actual <= expected THEN "YELLOW"
    ELSE "GREEN"

get_color(actual, required, expected) ==
    IF actual < required THEN "RED"
    ELSE IF actual < expected THEN "YELLOW"
    ELSE "GREEN"

is_port_available(port, bound) == port \notin bound

actual_cpu_cores(n) == n % U8

remained_storage_space(ds) == SumSeq(ds)

RECURSIVE unavailable_ports(_, _)
unavailable_ports(required, bound) ==
    IF required = <<>> THEN <<>>
    ELSE (IF ~is_port_available(Head(required), bound) THEN <<Head(required)>> ELSE <<>>)
         \o unavailable_ports(Tail(required), bound)

Row(label, required, expected, actual, color) ==
    [label |-> label, required |-> required, expected |-> expected,
     actual |-> actual, color |-> color]

hardware_table(cpu, mem, sto, unavailable) ==
    << Row("", "Required", "Expected", "Actual", ""),
       Row("cpu cores", RequiredCpuCores, ExpectedCpuCores, cpu,
           get_color(cpu, RequiredCpuCores, ExpectedCpuCores)),
       Row("memory", RequiredMemory, ExpectedMemory, mem,
           get_color(mem, RequiredMemory, ExpectedMemory)),
       Row("storage space", RequiredStorage, ExpectedStorage, sto,
           get_color(sto, RequiredStorage, ExpectedStorage)),
       Row("ports", RequiredPorts, "-", unavailable,
           IF Len(unavailable) = 0 THEN "GREEN" ELSE "RED") >>

(* Variants of hardware_panic: memory looked at before the processors, the *)
(* force flag not consulted, the expected thresholds used as the floor.    *)
hardware_panic_memory_first(f, cpu, mem, sto, unavailable) ==
    IF f THEN ""
    ELSE IF mem < RequiredMemory THEN "Memory not enough."
    ELSE IF cpu < RequiredCpuCores THEN "CPU cores not enough."
    ELSE IF sto < RequiredStorage THEN "Storage space not enough."
    ELSE IF Len(unavailable) > 0 THEN "Some ports are not available."
    ELSE ""

hardware_panic_force_ignored(f, cpu, mem, sto, unavailable) ==
    IF cpu < RequiredCpuCores THEN "CPU cores not enough."
    ELSE IF mem < RequiredMemory THEN "Memory not enough."
    ELSE IF sto < RequiredStorage THEN "Storage space not enough."
    ELSE IF Len(unavailable) > 0 THEN "Some ports are not available."
    ELSE ""

hardware_panic_expected_floor(f, cpu, mem, sto, unavailable) ==
    IF f THEN ""
    ELSE IF cpu < ExpectedCpuCores THEN "CPU cores not enough."
    ELSE IF mem < ExpectedMemory THEN "Memory not enough."
    ELSE IF sto < ExpectedStorage THEN "Storage space not enough."
    ELSE IF Len(unavailable) > 0 THEN "Some ports are not available."
    ELSE ""

(* Variant of hardware_panic: the ports are shown but not checked. *)
hardware_panic_ports_unchecked(f, cpu, mem, sto, unavailable) ==
    IF f THEN ""
    ELSE IF cpu < RequiredCpuCores THEN "CPU cores not enough."
    ELSE IF mem < RequiredMemory THEN "Memory not enough."
    ELSE IF sto < RequiredStorage THEN "Storage space not enough."
    ELSE ""

(* The panic message of the gate, "" when it returns. *)
hardware_panic(f, cpu, mem, sto, unavailable) ==
    IF f THEN ""
    ELSE IF cpu < RequiredCpuCores THEN "CPU cores not enough."
    ELSE IF mem < RequiredMemory THEN "Memory not enough."
    ELSE IF sto < RequiredStorage THEN "Storage space not enough."
    ELSE IF Len(unavailable) > 0 THEN "Some ports are not available."
    ELSE ""

(* Variant of hardware_events: the table is printed only when nothing is   *)
(* raised.                                                                 *)
hardware_events_checks_first(rows, msg) ==
    IF msg = ""
    THEN <<Event("table", "printstd", [i \in DOMAIN rows |-> rows[i].label], "")>>
    ELSE <<panic(msg)>>

(* What check_hardware_requirement writes and raises, in order. *)
hardware_events(rows, msg) ==
    <<Event("table", "printstd", [i \in DOMAIN rows |-> rows[i].label], "")>>
    \o (IF msg = "" THEN <<>> ELSE <<panic(msg)>>)

(* Variant of check_hardware_requirement: a failed check is reported and   *)
(* main goes on.                                                           *)
check_hardware_requirement_warns ==
    /\ pc = "main"
    /\ subcommand = "deploy"
    /\ LET cpu == actual_cpu_cores(processors)
           mem == total_memory
           sto == remained_storage_space(disks)
           unavailable == unavailable_ports(RequiredPorts, bound_ports)
           rows == hardware_table(cpu, mem, sto, unavailable)
           msg == hardware_panic(force, cpu, mem, sto, unavailable)
       IN  /\ table' = rows
           /\ log' = log \o <<println("> checking hardware requirements...")>>
                         \o hardware_events(rows, msg)
                         \o <<println("> checking docker and docker-compose...")>>
           /\ pc' = "check_docker"
    /\ UNCHANGED <<input, host, child, image_idx, images_ok, resolved>>

check_hardware_requirement ==
    /\ pc = "main"
    /\ subcommand = "deploy"
    /\ LET cpu == actual_cpu_cores(processors)
           mem == total_memory
           sto == remained_storage_space(disks)
           unavailable == unavailable_ports(RequiredPorts, bound_ports)
           rows == hardware_table(cpu, mem, sto, unavailable)
           msg == hardware_panic(force, cpu, mem, sto, unavailable)
       IN  /\ table' = rows
           /\ log' = log \o <<println("> checking hardware requirements...")>>
                         \o hardware_events(rows, msg)
                         \o (IF msg = "" THEN <<println("> checking docker and docker-compose...")>>
                             ELSE <<>>)
           /\ pc' = IF msg = "" THEN "check_docker" ELSE "Failed"
    /\ UNCHANGED <<input, host, child, image_idx, images_ok, resolved>>

----------------------------------------------------------------------------
(* Paths: absolute or relative, a sequence of components.                  *)

Rel(comps) == [abs |-> FALSE, comps |-> comps]
Abs(comps) == [abs |-> TRUE, comps |-> comps]

(* The file system the runs see: the directories and files that exist, and *)
(* the working directory of the process.                                   *)
ExistingPaths ==
    { <<>>, <<"home">>, <<"home", "op">>, <<"home", "op", "dist">>,
      <<"opt">>, <<"opt", "dist">> }
Cwd == Abs(<<"home", "op">>)

(* The values --from-source and --from-tar are given. *)
PathArgs == { NoPath, Rel(<<".", "dist">>), Rel(<<"missing">>), Abs(<<"opt", "dist">>) }

is_absolute(p) == p.abs

join(base, p) ==
    IF is_absolute(p) THEN p ELSE [abs |-> base.abs, comps |-> base.comps \o p.comps]

(* fs::canonicalize: walks the components, every prefix has to exist.      *)
RECURSIVE canonical_walk(_, _)
canonical_walk(done, rest) ==
    IF done \notin ExistingPaths THEN [ok |-> FALSE, path |-> NoPath]
    ELSE IF rest = <<>> THEN [ok |-> TRUE, path |-> Abs(done)]
    ELSE IF Head(rest) = "." THEN canonical_walk(done, Tail(rest))
    ELSE IF Head(rest) = ".."
         THEN canonical_walk(IF done = <<>> THEN done ELSE SubSeq(done, 1, Len(done) - 1),
                             Tail(rest))
    ELSE canonical_walk(Append(done, Head(rest)), Tail(rest))

canonicalize(p) == canonical_walk(<<>>, p.comps)

RECURSIVE comps_to_str(_)
comps_to_str(comps) ==
    IF comps = <<>> THEN ""
    ELSE IF Len(comps) = 1 THEN Head(comps)
    ELSE Head(comps) \o "/" \o comps_to_str(Tail(comps))

to_str(p) == (IF p.abs THEN "/" ELSE "") \o comps_to_str(p.comps)

(* Variant of resolve_path: the argument is used as it was given. *)
resolve_path_as_given(arg, cwd_ok) == [ok |-> TRUE, path |-> arg, msg |-> ""]

(* main, lines 492-499 and 504-510: the PathBuf of an argument; a relative *)
(* one is joined to the working directory and canonicalized.               *)
resolve_path(arg, cwd_ok) ==
    IF is_absolute(arg) THEN [ok |-> TRUE, path |-> arg, msg |-> ""]
    ELSE IF ~cwd_ok
         THEN [ok |-> FALSE, path |-> NoPath, msg |-> "failed to get current directory"]
    ELSE LET c == canonicalize(join(Cwd, arg))
         IN  [ok |-> c.ok, path |-> c.path,
              msg |-> IF c.ok THEN "" ELSE "failed to canoicalize source directory"]

----------------------------------------------------------------------------
(* Shell lines.  A line is a sequence of words; `sh -c` splits it into     *)
(* commands at the separators && and ; (empty words, left by two spaces in *)
(* a row, vanish).  A command after && runs only if the one before it      *)
(* exited zero, a command after ; always runs, and the line exits with the *)
(* status of the last command that ran.                                    *)

Separators == {"&&", ";"}

RECURSIVE sh_split(_, _, _)
sh_split(words, sep, cur) ==
    IF words = <<>> THEN <<[sep |-> sep, cmd |-> cur]>>
    ELSE IF Head(words) \in Separators
         THEN <<[sep |-> sep, cmd |-> cur]>> \o sh_split(Tail(words), Head(words), <<>>)
    ELSE IF Head(words) = "" THEN sh_split(Tail(words), sep, cur)
    ELSE sh_split(Tail(words), sep, Append(cur, Head(words)))

sh_commands(line) == sh_split(line, ";", <<>>)

(* The commands of `cmds` from the i-th on that run, when those of `fails` *)
(* exit nonzero: [events, ok].                                             *)
RECURSIVE sh_run(_, _, _, _, _)
sh_run(step, cmds, i, ok, fails) ==
    IF i > Len(cmds) THEN [events |-> <<>>, ok |-> ok]
    ELSE IF cmds[i].sep = "&&" /\ ~ok THEN sh_run(step, cmds, i + 1, ok, fails)
    ELSE LET rest == sh_run(step, cmds, i + 1, i \notin fails, fails)
         IN  [events |-> <<Event("sub", step, cmds[i].cmd,
                                 IF i \in fails THEN "nonzero" ELSE "ok")>> \o rest.events,
              ok |-> rest.ok]

(* What the child of `sh -c line` does until it has exited. *)
sh_events(step, line, fails) ==
    LET r == sh_run(step, sh_commands(line), 1, TRUE, fails)
    IN  [events |-> r.events \o <<Event("exit", step, line, IF r.ok THEN "ok" ELSE "nonzero")>>,
         ok |-> r.ok]

(* Command::new("sh").arg("-c").arg(line): the process is started, or      *)
(* cannot be.                                                              *)
spawn(at, step, line, msg) ==
    /\ pc = at
    /\ child = NoChild
    /\ \/ /\ child' = [step |-> step, line |-> line]
          /\ log' = Append(log, Event("spawn", step, line, ""))
          /\ pc' = pc
       \/ /\ child' = child
          /\ log' = log \o <<Event("spawnerr", step, line, ""), panic(msg)>>
          /\ pc' = "Failed"

(* Variant of exit: the exit status is not looked at. *)
exit_status_unchecked(at, msg, next, after) ==
    /\ pc = at
    /\ child # NoChild
    /\ \E fails \in SUBSET (1..Len(sh_commands(child.line))) :
          LET r == sh_events(child.step, child.line, fails)
          IN  /\ log' = log \o r.events \o after
              /\ pc' = next
    /\ child' = NoChild

(* Variant of exit: a step whose child exited nonzero is tried once more. *)
exit_retries_once(at, msg, next, after) ==
    /\ pc = at
    /\ child # NoChild
    /\ \E fails \in SUBSET (1..Len(sh_commands(child.line))) :
          LET r == sh_events(child.step, child.line, fails)
              tries == Cardinality({i \in DOMAIN log :
                                       log[i] = Event("spawn", child.step, child.line, "")})
          IN  /\ log' = log \o r.events
                            \o (IF r.ok THEN after
                                ELSE IF tries < 2 THEN <<>> ELSE <<panic(msg)>>)
              /\ pc' = IF r.ok THEN next ELSE IF tries < 2 THEN at ELSE "Failed"
    /\ child' = NoChild

(* .status() returns: the child has exited; main goes on only after exit 0 *)
exit(at, msg, next, after) ==
    /\ pc = at
    /\ child # NoChild
    /\ \E fails \in SUBSET (1..Len(sh_commands(child.line))) :
          LET r == sh_events(child.step, child.line, fails)
          IN  /\ log' = log \o r.events \o (IF r.ok THEN after ELSE <<panic(msg)>>)
              /\ pc' = IF r.ok THEN next ELSE "Failed"
    /\ child' = NoChild

----------------------------------------------------------------------------
(* check_docker *)

docker_info_line == <<"docker", "info">>
docker_compose_version_line == <<"docker-compose", "version">>

docker_info_spawn ==
    /\ spawn("check_docker", "docker info", docker_info_line, "docker is not running")
    /\ UNCHANGED <<input, host, image_idx, images_ok, resolved, table>>

(* Variant of docker_info_exit: with force, the status is not looked at. *)
docker_info_exit_forced ==
    /\ IF force
       THEN exit_status_unchecked("check_docker", "docker is not running", "check_compose",
                                  <<println("docker is running")>>)
       ELSE exit("check_docker", "docker is not running", "check_compose",
                 <<println("docker is running")>>)
    /\ UNCHANGED <<input, host, image_idx, images_ok, resolved, table>>

docker_info_exit ==
    /\ exit("check_docker", "docker is not running", "check_compose",
            <<println("docker is running")>>)
    /\ UNCHANGED <<input, host, image_idx, images_ok, resolved, table>>

docker_compose_version_spawn ==
    /\ spawn("check_compose", "docker-compose version", docker_compose_version_line,
             "docker-compose was not installed")
    /\ UNCHANGED <<input, host, image_idx, images_ok, resolved, table>>

docker_compose_version_exit ==
    /\ exit("check_compose", "docker-compose was not installed", "check_images",
            <<println("docker-compose was installed")>>)
    /\ UNCHANGED <<input, host, image_idx, images_ok, resolved, table>>

----------------------------------------------------------------------------
(* check_images *)

images == <<"tower:0.2.3", "prismagraphql/prisma:1.34", "postgres:10.3",
            "openresty/openresty:alpine">>

inspect_line(image) == <<"docker", "inspect", "--type=image", image>>

(* Variant of check_images_step: a missing image is reported and the loop  *)
(* goes on to the next image.                                              *)
check_images_step_no_return(i, image_exists) ==
    LET out == IF image_exists THEN <<>>
               ELSE <<println(images[i] \o " image is missing")>>
    IN  IF i = Len(images)
        THEN [done |-> TRUE, ok |-> IF image_exists THEN "true" ELSE "false", idx |-> i,
              out |-> out]
        ELSE [done |-> FALSE, ok |-> "unknown", idx |-> i + 1, out |-> out]

(* What check_images does once the probe of image i is known to have found *)
(* it or not: [done, ok, idx, out].                                        *)
check_images_step(i, image_exists) ==
    IF ~image_exists
    THEN [done |-> TRUE, ok |-> "false", idx |-> i,
          out |-> <<println(images[i] \o " image is missing")>>]
    ELSE IF i = Len(images)
    THEN [done |-> TRUE, ok |-> "true", idx |-> i,
          out |-> <<println("all image exists")>>]
    ELSE [done |-> FALSE, ok |-> "unknown", idx |-> i + 1, out |-> <<>>]

check_images_apply(r, events) ==
    /\ image_idx' = r.idx
    /\ images_ok' = r.ok
    /\ pc' = IF r.done THEN "dispatch" ELSE "check_images"
    /\ log' = log \o events \o r.out
                  \o (IF r.done THEN <<println("> starting tower containers...")>> ELSE <<>>)

check_images_spawn ==
    /\ pc = "check_images"
    /\ child = NoChild
    /\ LET line == inspect_line(images[image_idx])
       IN  \/ /\ child' = [step |-> "docker inspect", line |-> line]
              /\ log' = Append(log, Event("spawn", "docker inspect", line, ""))
              /\ UNCHANGED <<pc, image_idx, images_ok>>
           \/ /\ child' = child
              /\ check_images_apply(check_images_step(image_idx, FALSE),
                                    <<Event("spawnerr", "docker inspect", line, "")>>)
    /\ UNCHANGED <<input, host, resolved, table>>

check_images_exit ==
    /\ pc = "check_images"
    /\ child # NoChild
    /\ \E fails \in SUBSET (1..Len(sh_commands(child.line))) :
          LET r == sh_events(child.step, child.line, fails)
          IN  check_images_apply(check_images_step(image_idx, r.ok), r.events)
    /\ child' = NoChild
    /\ UNCHANGED <<input, host, resolved, table>>

----------------------------------------------------------------------------
(* main: the dispatch to the sequencer, lines 491-514 *)

(* Where main goes from its arguments: [ok, next, path, msg]. *)
dispatch(src, tar, cwd_ok) ==
    IF src # NoPath
    THEN LET r == resolve_path(src, cwd_ok)
         IN  [ok |-> r.ok, next |-> "start_from_source", path |-> r.path, msg |-> r.msg]
    ELSE IF tar # NoPath
    THEN IF ~is_absolute(tar)
         THEN LET r == resolve_path(tar, cwd_ok)
              IN  [ok |-> r.ok, next |-> "load_images", path |-> r.path, msg |-> r.msg]
         ELSE [ok |-> TRUE, next |-> "start_from_image", path |-> tar, msg |-> ""]
    ELSE [ok |-> TRUE, next |-> "start_from_image", path |-> NoPath, msg |-> ""]

(* Variant of main_dispatch: a false check_images() ends the run. *)
main_dispatch_needs_images ==
    /\ pc = "dispatch"
    /\ \E cwd_ok \in BOOLEAN :
          LET d == dispatch(source_dir, tar_dir, cwd_ok)
              go == d.ok /\ images_ok = "true"
          IN  /\ pc' = IF go THEN d.next ELSE "Failed"
              /\ resolved' = d.path
              /\ log' = IF go THEN log
                        ELSE Append(log, panic(IF d.ok THEN "images are missing" ELSE d.msg))
    /\ UNCHANGED <<input, host, child, image_idx, images_ok, table>>

main_dispatch ==
    /\ pc = "dispatch"
    /\ \E cwd_ok \in BOOLEAN :
          LET d == dispatch(source_dir, tar_dir, cwd_ok)
          IN  /\ pc' = IF d.ok THEN d.next ELSE "Failed"
              /\ resolved' = d.path
              /\ log' = IF d.ok THEN log ELSE Append(log, panic(d.msg))
    /\ UNCHANGED <<input, host, child, image_idx, images_ok, table>>

----------------------------------------------------------------------------
(* start_from_source *)

compose_up_file_line(dir) ==
    <<"docker-compose", "-p", "tower", "-f",
      to_str(join(dir, Rel(<<"packages", "server", "docker-compose.yml">>))),
      "up", "-d">>

yarn_arg(dir) ==
    <<"cd", to_str(dir), "&&", "yarn", "&&", "yarn", "lerna", "run", "prepublish">>

(* Variant of reset_arg: the reset is there whatever the flag. *)
reset_arg_always(f) == <<"&&", "yarn", "prisma", "reset", "-f">>

reset_arg(f) == IF f THEN <<"&&", "yarn", "prisma", "reset", "-f">> ELSE <<"">>

(* Variant of setup_args: the setup script follows a ; instead of a &&. *)
setup_args_sequenced(dir, f) ==
    LET server_dir == join(dir, Rel(<<"packages", "server">>))
        setup_script == join(server_dir, Rel(<<"scripts", "setup.js">>))
    IN  Flatten(<< <<"cd">>, <<to_str(server_dir)>>,
                   <<"&&", "yarn", "prisma", "deploy">>,
                   reset_arg(f),
                   <<";", "node">>, <<to_str(setup_script)>> >>)

(* [..].join(" "): the fragments in order, one space between two *)
setup_args(dir, f) ==
    LET server_dir == join(dir, Rel(<<"packages", "server">>))
        setup_script == join(server_dir, Rel(<<"scripts", "setup.js">>))
    IN  Flatten(<< <<"cd">>, <<to_str(server_dir)>>,
                   <<"&&", "yarn", "prisma", "deploy">>,
                   reset_arg(f),
                   <<"&&", "node">>, <<to_str(setup_script)>> >>)

source_compose_up_spawn ==
    /\ spawn("start_from_source", "compose up", compose_up_file_line(resolved),
             "failed to start tower containers")
    /\ UNCHANGED <<input, host, image_idx, images_ok, resolved, table>>

source_compose_up_exit ==
    /\ exit("start_from_source", "failed to start tower containers", "build", <<>>)
    /\ UNCHANGED <<input, host, image_idx, images_ok, resolved, table>>

build_spawn ==
    /\ spawn("build", "build", yarn_arg(resolved), "failed to build tower from source code")
    /\ UNCHANGED <<input, host, image_idx, images_ok, resolved, table>>

build_exit ==
    /\ exit("build", "failed to build tower from source code", "setup", <<>>)
    /\ UNCHANGED <<input, host, image_idx, images_ok, resolved, table>>

setup_spawn ==
    /\ spawn("setup", "setup", setup_args(resolved, force), "failed to run setup script")
    /\ UNCHANGED <<input, host, image_idx, images_ok, resolved, table>>

setup_exit ==
    /\ exit("setup", "failed to run setup script", "Succeeded", <<>>)
    /\ UNCHANGED <<input, host, image_idx, images_ok, resolved, table>>

----------------------------------------------------------------------------
(* load_images and start_from_image *)

docker_load_line(tar) == <<"docker", "load", "--input", to_str(tar)>>

compose_up_stdin_line == <<"docker-compose", "-p", "tower", "-f", "-", "up", "-d">>

load_images_spawn ==
    /\ spawn("load_images", "docker load", docker_load_line(resolved),
             "failed to load docker images")
    /\ UNCHANGED <<input, host, image_idx, images_ok, resolved, table>>

load_images_exit ==
    /\ exit("load_images", "failed to load docker images", "start_from_image", <<>>)
    /\ UNCHANGED <<input, host, image_idx, images_ok, resolved, table>>

start_from_image_spawn ==
    /\ spawn("start_from_image", "compose up", compose_up_stdin_line,
             "failed to start tower containers")
    /\ UNCHANGED <<input, host, image_idx, images_ok, resolved, table>>

(* write_all of the compose document to the child's stdin, then wait() *)
start_from_image_exit ==
    /\ pc = "start_from_image"
    /\ child # NoChild
    /\ \/ /\ log' = log \o <<Event("write", child.step, child.line, "err"),
                             panic("failed to start tower containers")>>
          /\ pc' = "Failed"
       \/ \E fails \in SUBSET (1..Len(sh_commands(child.line))) :
             LET r == sh_events(child.step, child.line, fails)
             IN  /\ log' = log \o <<Event("write", child.step, child.line, "ok")>>
                               \o r.events
                               \o (IF r.ok THEN <<>>
                                   ELSE <<panic("failed to start tower containers")>>)
                 /\ pc' = IF r.ok THEN "Succeeded" ELSE "Failed"
    /\ child' = NoChild
    /\ UNCHANGED <<input, host, image_idx, images_ok, resolved, table>>

----------------------------------------------------------------------------
(* shut_down and the remaining arms of main *)

compose_down_line == <<"docker-compose", "-p", "tower", "down">>

shut_down_spawn ==
    /\ subcommand = "down"
    /\ spawn("main", "compose down", compose_down_line,
             "failed to shut down tower containers")
    /\ UNCHANGED <<input, host, image_idx, images_ok, resolved, table>>

shut_down_exit ==
    /\ subcommand = "down"
    /\ exit("main", "failed to shut down tower containers", "Succeeded", <<>>)
    /\ UNCHANGED <<input, host, image_idx, images_ok, resolved, table>>

main_no_subcommand ==
    /\ pc = "main"
    /\ subcommand = "none"
    /\ pc' = "Succeeded"
    /\ UNCHANGED <<input, host, child, image_idx, images_ok, resolved, table, log>>

----------------------------------------------------------------------------
(* Runs of the tool on one host, each at its port probe: the index of the  *)
(* required port it is at, the sockets its listener holds, the result of   *)
(* each bind (and who held the port then), the ports it found unavailable  *)
(* and what the gate raised.                                               *)
MaxRuns == 2
Runs == 1..MaxRuns

ProbeStart ==
    [pc |-> "probing", idx |-> 1, held |-> {}, binds |-> <<>>, unavailable |-> <<>>,
     msg |-> ""]

(* every loopback port with a listener: other processes' and the probes' *)
ports_in_use == bound_ports \cup UNION {probe[r].held : r \in Runs}

(* is_port_available: TcpListener::bind(("127.0.0.1", port)) *)
probe_bind(r) ==
    /\ probe[r].pc = "probing"
    /\ LET p == RequiredPorts[probe[r].idx]
           taken == unavailable_ports(<<p>>, ports_in_use)
           ok == taken = <<>>
           holder == IF p \in bound_ports THEN "process"
                     ELSE IF \E q \in Runs : p \in probe[q].held THEN "run"
                     ELSE "free"
       IN  probe' = [probe EXCEPT ![r] =
                        [@ EXCEPT !.pc = "matched",
                                  !.held = IF ok THEN {p} ELSE {},
                                  !.binds = Append(@, [port |-> p, ok |-> ok, holder |-> holder]),
                                  !.unavailable = @ \o taken]]
    /\ UNCHANGED <<input, processors, total_memory, disks, bound_ports, pc, child,
                   image_idx, images_ok, resolved, table, log>>

(* Variant of probe_return: the listener outlives the call. *)
probe_return_keeps_listener(r) ==
    /\ probe[r].pc = "matched"
    /\ probe' = [probe EXCEPT ![r] =
                    [@ EXCEPT !.pc = IF probe[r].idx = Len(RequiredPorts) THEN "checked" ELSE "probing",
                              !.idx = @ + 1]]
    /\ UNCHANGED <<input, processors, total_memory, disks, bound_ports, pc, child,
                   image_idx, images_ok, resolved, table, log>>

(* is_port_available returns: the listener of Ok(_) is dropped, the filter *)
(* goes on to the next required port.                                      *)
probe_return(r) ==
    /\ probe[r].pc = "matched"
    /\ probe' = [probe EXCEPT ![r] =
                    [@ EXCEPT !.pc = IF probe[r].idx = Len(RequiredPorts) THEN "checked" ELSE "probing",
                              !.idx = @ + 1,
                              !.held = {}]]
    /\ UNCHANGED <<input, processors, total_memory, disks, bound_ports, pc, child,
                   image_idx, images_ok, resolved, table, log>>

(* the checks after the table, lines 165-180 *)
probe_gate(r) ==
    /\ probe[r].pc = "checked"
    /\ LET msg == hardware_panic(force, actual_cpu_cores(processors), total_memory,
                                 remained_storage_space(disks), probe[r].unavailable)
       IN  probe' = [probe EXCEPT ![r] =
                        [@ EXCEPT !.pc = IF msg = "" THEN "passed" ELSE "failed",
                                  !.msg = msg]]
    /\ UNCHANGED <<input, processors, total_memory, disks, bound_ports, pc, child,
                   image_idx, images_ok, resolved, table, log>>

(* another process of the host starts listening on a free port *)
other_process_binds ==
    /\ \E p \in HostPorts :
          /\ p \notin ports_in_use
          /\ bound_ports' = bound_ports \cup {p}
    /\ UNCHANGED <<input, processors, total_memory, disks, probe, pc, child,
                   image_idx, images_ok, resolved, table, log>>

(* The state main starts in, on a host drawn from the given sets. *)
InitOn(counts, memories, disk_lists, port_sets, paths) ==
    /\ subcommand \in {"deploy", "down", "none"}
    /\ force \in BOOLEAN
    /\ source_dir \in paths
    /\ tar_dir \in paths
    /\ subcommand # "deploy" => (~force /\ source_dir = NoPath /\ tar_dir = NoPath)
    /\ processors \in counts
    /\ total_memory \in memories
    /\ disks \in disk_lists
    /\ bound_ports \in port_sets
    /\ probe = [r \in Runs |-> ProbeStart]
    /\ pc = "main"
    /\ child = NoChild
    /\ image_idx = 1
    /\ images_ok = "unknown"
    /\ resolved = NoPath
    /\ table = <<>>
    /\ log = <<>>

(* Whole runs: every argument combination, on hosts around the required    *)
(* thresholds (one processor too few, just enough, and 256 of them).       *)
RunProcessorCounts == {RequiredCpuCores - 1, RequiredCpuCores, U8}
RunMemorySamples == {RequiredMemory - 1, RequiredMemory}
RunDiskLists == {<<>>, <<50 * GiB>>}
RunPortSets == {{ServerPort}, {ServerPort, PrismaPort}}

Init == InitOn(RunProcessorCounts, RunMemorySamples, RunDiskLists, RunPortSets, PathArgs)

(* The gate alone: every host of the samples, the deploy arguments fixed.  *)
GateInit ==
    /\ InitOn(ProcessorCounts, MemorySamples, DiskLists, SUBSET HostPorts, {NoPath})
    /\ subcommand = "deploy"

GateNext == check_hardware_requirement

GateSpec == GateInit /\ [][GateNext]_vars

(* The classifier alone: get_color applied, as in a table cell, to every   *)
(* actual, required and expected value up to MaxScalar.                    *)
MaxScalar == 5

ClassifyInit ==
    /\ InitOn({RequiredCpuCores}, {RequiredMemory}, {<<>>}, {{}}, {NoPath})
    /\ subcommand = "deploy"
    /\ force = FALSE

classify_cell ==
    /\ pc = "main"
    /\ \E actual, required, expected \in 0..MaxScalar :
          table' = <<Row("scalar", required, expected, actual,
                         get_color(actual, required, expected))>>
    /\ UNCHANGED <<input, host, pc, child, image_idx, images_ok, resolved, log>>

ClassifyNext == classify_cell

ClassifySpec == ClassifyInit /\ [][ClassifyNext]_vars

(* `down` run again and again: when a run has ended the operator starts   *)
(* the next, up to MaxDownRuns runs; the log keeps how each run ended.     *)
MaxDownRuns == 2

DownInit ==
    /\ InitOn(RunProcessorCounts, RunMemorySamples, RunDiskLists, RunPortSets, {NoPath})
    /\ subcommand = "down"

down_again ==
    /\ subcommand = "down"
    /\ pc \in {"Succeeded", "Failed"}
    /\ Cardinality({i \in DOMAIN log : log[i].ev = "end"}) < MaxDownRuns - 1
    /\ log' = Append(log, Event("end", pc, <<>>, ""))
    /\ pc' = "main"
    /\ UNCHANGED <<input, host, child, image_idx, images_ok, resolved, table>>

DownNext ==
    \/ shut_down_spawn
    \/ shut_down_exit
    \/ down_again

DownSpec == DownInit /\ [][DownNext]_vars

(* The port probes of MaxRuns concurrent `deploy` runs on one host. *)
PortInit ==
    /\ InitOn(RunProcessorCounts, RunMemorySamples, RunDiskLists, SUBSET HostPorts, {NoPath})
    /\ subcommand = "deploy"

PortNext ==
    \/ \E r \in Runs : probe_bind(r)
    \/ \E r \in Runs : probe_return(r)
    \/ \E r \in Runs : probe_gate(r)
    \/ other_process_binds

PortSpec == PortInit /\ [][PortNext]_vars

Next ==
    \/ check_hardware_requirement
    \/ docker_info_spawn
    \/ docker_info_exit
    \/ docker_compose_version_spawn
    \/ docker_compose_version_exit
    \/ check_images_spawn
    \/ check_images_exit
    \/ main_dispatch
    \/ source_compose_up_spawn
    \/ source_compose_up_exit
    \/ build_spawn
    \/ build_exit
    \/ setup_spawn
    \/ setup_exit
    \/ load_images_spawn
    \/ load_images_exit
    \/ start_from_image_spawn
    \/ start_from_image_exit
    \/ shut_down_spawn
    \/ shut_down_exit
    \/ main_no_subcommand

Spec == Init /\ [][Next]_vars

(* The steps of main itself, and the exits of the processes it waits for. *)
ProgramSteps ==
    \/ check_hardware_requirement
    \/ docker_info_spawn
    \/ docker_compose_version_spawn
    \/ check_images_spawn
    \/ main_dispatch
    \/ source_compose_up_spawn
    \/ build_spawn
    \/ setup_spawn
    \/ load_images_spawn
    \/ start_from_image_spawn
    \/ shut_down_spawn
    \/ main_no_subcommand

ChildExits ==
    \/ docker_info_exit
    \/ docker_compose_version_exit
    \/ check_images_exit
    \/ source_compose_up_exit
    \/ build_exit
    \/ setup_exit
    \/ load_images_exit
    \/ start_from_image_exit
    \/ shut_down_exit

(* main is a single thread that is never descheduled for good, and every   *)
(* external process it has started exits in the end.                       *)
(* Runs to their end: every argument combination, on a host that passes    *)
(* the gate and on one that is a processor short.                          *)
LiveInit ==
    InitOn({RequiredCpuCores - 1, RequiredCpuCores}, {RequiredMemory},
           {<<50 * GiB>>}, {{ServerPort}}, PathArgs)

LiveSpec == LiveInit /\ [][Next]_vars /\ WF_vars(ProgramSteps) /\ WF_vars(ChildExits)

----------------------------------------------------------------------------
(* Reading the log *)

Last(s) == s[Len(s)]

SequencerSteps == {"docker load", "compose up", "build", "setup"}

IsInvocation(e) == e.ev \in {"spawn", "spawnerr"}

IsDeployInvocation(e) == IsInvocation(e) /\ e.step \in SequencerSteps

IsStepFailure(e) ==
    /\ e.step \in SequencerSteps
    /\ \/ e.ev = "spawnerr"
       \/ e.ev = "exit" /\ e.status = "nonzero"
       \/ e.ev = "write" /\ e.status = "err"

IsChildActivity(e) == e.ev \in {"spawn", "spawnerr", "sub", "write", "exit"}

Panicked == \E i \in DOMAIN log : log[i].ev = "panic"

GateRan == subcommand = "deploy" /\ pc # "main"

(* What the gate measured: the cpu value it classifies and compares, the   *)
(* memory and the storage of the host, the required ports it found taken.  *)
GateCpu == table[2].actual
GateMemory == total_memory
GateStorage == SumSeq(disks)
GatePortsTaken == Range(RequiredPorts) \cap bound_ports

MigrationCmd == <<"yarn", "prisma", "deploy">>
ResetCmd == <<"yarn", "prisma", "reset", "-f">>

----------------------------------------------------------------------------
(* C1: once the invocation of a sequencer step has failed (could not be    *)
(* spawned, exited nonzero, or its stdin could not be written), the run is *)
(* Failed and the log holds no later activity of any external process: no  *)
(* later step is invoked.  Checked under Spec.                             *)
C1_NoStepAfterFailure ==
    \A i \in DOMAIN log :
        IsStepFailure(log[i]) =>
            /\ pc = "Failed"
            /\ \A j \in DOMAIN log : j > i => ~IsChildActivity(log[j])

(* a from-source run whose build exited nonzero *)
C1_Witness ==
    /\ pc = "Failed"
    /\ \E i \in DOMAIN log :
          /\ log[i].ev = "exit" /\ log[i].step = "build" /\ log[i].status = "nonzero"
          /\ \E j \in 1..(i - 1) :
                log[j].ev = "exit" /\ log[j].step = "compose up" /\ log[j].status = "ok"

(* C2: in a from-archive run (--from-tar given, --from-source not), with a *)
(* relative or an absolute archive path, the piped compose-up is invoked   *)
(* only after exactly one image-load invocation on that archive, which     *)
(* exited zero.  Checked under Spec.                                       *)
C2_ArchiveLoadedBeforeComposeUp ==
    (subcommand = "deploy" /\ source_dir = NoPath /\ tar_dir # NoPath) =>
        \A i \in DOMAIN log :
            (IsInvocation(log[i]) /\ log[i].step = "compose up") =>
                LET loads == {j \in DOMAIN log :
                                 IsInvocation(log[j]) /\ log[j].step = "docker load"}
                    archive == IF tar_dir.abs THEN tar_dir
                               ELSE canonicalize(join(Cwd, tar_dir)).path
                IN  /\ Cardinality(loads) = 1
                    /\ \A j \in loads :
                          /\ j < i
                          /\ log[j] = Event("spawn", "docker load",
                                            <<"docker", "load", "--input", to_str(archive)>>, "")
                          /\ \E k \in (j + 1)..(i - 1) :
                                log[k] = Event("exit", "docker load", log[j].line, "ok")

(* C3: without force, when the cpu value of the gate, the memory or the    *)
(* storage is below its required threshold or a required port is taken,    *)
(* the gate fails, and with the message of the first failing metric in the *)
(* order cpu, memory, storage, ports.  Checked under GateSpec.             *)
C3_FirstFailingMetric ==
    (GateRan /\ ~force) =>
        LET first == IF GateCpu < RequiredCpuCores THEN "CPU cores not enough."
                     ELSE IF GateMemory < RequiredMemory THEN "Memory not enough."
                     ELSE IF GateStorage < RequiredStorage THEN "Storage space not enough."
                     ELSE IF GatePortsTaken # {} THEN "Some ports are not available."
                     ELSE ""
        IN  first # "" => (pc = "Failed" /\ Last(log) = panic(first))

(* cpu and storage both below required: the failure is the cpu one *)
C3_Witness ==
    /\ GateRan /\ ~force
    /\ GateCpu < RequiredCpuCores
    /\ GateMemory >= RequiredMemory
    /\ GateStorage < RequiredStorage
    /\ pc = "Failed"
    /\ Last(log) = panic("CPU cores not enough.")

(* C4: with force, the gate never fails: whatever the host, it raises      *)
(* nothing and main is at the docker check.  Checked under GateSpec.       *)
C4_ForceNeverFails ==
    (GateRan /\ force) => (pc = "check_docker" /\ ~Panicked)

(* a forced gate on a host where every metric is below required *)
C4_Witness ==
    /\ GateRan /\ force
    /\ pc = "check_docker"
    /\ GateCpu < RequiredCpuCores
    /\ GateMemory < RequiredMemory
    /\ GateStorage < RequiredStorage
    /\ GatePortsTaken # {}

(* C5: without force, the gate passes whenever the cpu value, the memory   *)
(* and the storage are at or above required and every required port is    *)
(* free, whatever they are against the expected thresholds.  Checked under *)
(* GateSpec.                                                               *)
C5_ExpectedNeverBlocks ==
    ( /\ GateRan /\ ~force
      /\ GateCpu >= RequiredCpuCores
      /\ GateMemory >= RequiredMemory
      /\ GateStorage >= RequiredStorage
      /\ GatePortsTaken = {} )
    => (pc = "check_docker" /\ ~Panicked)

(* an unforced gate passed with every metric below expected *)
C5_Witness ==
    /\ GateRan /\ ~force
    /\ pc = "check_docker"
    /\ GateCpu >= RequiredCpuCores /\ GateCpu < ExpectedCpuCores
    /\ GateMemory >= RequiredMemory /\ GateMemory < ExpectedMemory
    /\ GateStorage >= RequiredStorage /\ GateStorage < ExpectedStorage
    /\ table[2].color = "YELLOW" /\ table[3].color = "YELLOW" /\ table[4].color = "YELLOW"

(* C6: whatever the outcome of the gate, the table with its header and its *)
(* four rows was printed, and before anything was raised.  Checked under   *)
(* GateSpec.                                                               *)
C6_TablePrintedFirst ==
    GateRan =>
        \E i \in DOMAIN log :
            /\ log[i] = Event("table", "printstd",
                              <<"", "cpu cores", "memory", "storage space", "ports">>, "")
            /\ \A j \in DOMAIN log : log[j].ev = "panic" => i < j

(* a gate that failed on the ports *)
C6_Witness ==
    /\ GateRan
    /\ pc = "Failed"
    /\ Last(log) = panic("Some ports are not available.")
    /\ \E i \in DOMAIN log : log[i].ev = "table"

(* C7: every deployment invocation (image load, compose-up, build, setup)  *)
(* comes after, in this order, the printed gate table, a docker probe that *)
(* exited zero, a compose probe that exited zero and the end of the image  *)
(* check, with every image probe in between and nothing raised before it.  *)
(* Checked under Spec.                                                     *)
C7_PhasesInOrder ==
    LET tables == {t \in DOMAIN log : log[t].ev = "table"}
        dockers == {d \in DOMAIN log :
                       log[d] = Event("exit", "docker info", docker_info_line, "ok")}
        composes == {c \in DOMAIN log :
                        log[c] = Event("exit", "docker-compose version",
                                       docker_compose_version_line, "ok")}
        starts == {k \in DOMAIN log : log[k] = println("> starting tower containers...")}
        inspects == {k \in DOMAIN log : log[k].step = "docker inspect"}
        panics == {k \in DOMAIN log : log[k].ev = "panic"}
        deploys == {i \in DOMAIN log : IsDeployInvocation(log[i])}
    IN  \A i \in deploys :
            /\ \A k \in panics : i < k
            /\ \E t \in tables : \E d \in dockers : \E c \in composes : \E s \in starts :
                  /\ t < d /\ d < c /\ c < s /\ s < i
                  /\ \A k \in inspects : c < k /\ k < s

(* a from-source run that went through every phase and succeeded *)
C7_Witness ==
    /\ pc = "Succeeded"
    /\ images_ok = "true"
    /\ \E i \in DOMAIN log : log[i].ev = "exit" /\ log[i].step = "setup"

(* C8: in a from-source run whose migration sub-step exited nonzero, the   *)
(* setup script did not run, the reset did not run, and the run is Failed. *)
(* Checked under Spec.                                                     *)
C8_MigrationFailureStopsSetup ==
    \A i \in DOMAIN log :
        log[i] = Event("sub", "setup", MigrationCmd, "nonzero") =>
            /\ pc = "Failed"
            /\ \A j \in DOMAIN log :
                  (log[j].ev = "sub" /\ log[j].step = "setup") =>
                      (Head(log[j].line) # "node" /\ log[j].line # ResetCmd)

(* a forced from-source run whose migration exited nonzero *)
C8_Witness ==
    /\ force
    /\ \E i \in DOMAIN log : log[i] = Event("sub", "setup", MigrationCmd, "nonzero")

(* C9: the commands of the setup line are cd, migration, setup script when *)
(* force is unset and cd, migration, reset, setup script when it is set;   *)
(* the word reset is in the line iff force is set.  Checked under Spec.    *)
C9_ResetIffForce ==
    \A i \in DOMAIN log :
        (IsInvocation(log[i]) /\ log[i].step = "setup") =>
            LET cmds == sh_commands(log[i].line)
                n == Len(cmds)
            IN  /\ n = IF force THEN 4 ELSE 3
                /\ Head(cmds[1].cmd) = "cd"
                /\ cmds[2].cmd = MigrationCmd
                /\ force => cmds[3].cmd = ResetCmd
                /\ Head(cmds[n].cmd) = "node" /\ Len(cmds[n].cmd) = 2
                /\ ("reset" \in Range(log[i].line)) <=> force

(* a forced from-source run that ran the reset between migration and setup *)
C9_Witness ==
    /\ force
    /\ \E i, j, k \in DOMAIN log :
          /\ i < j /\ j < k
          /\ log[i] = Event("sub", "setup", MigrationCmd, "ok")
          /\ log[j] = Event("sub", "setup", ResetCmd, "ok")
          /\ log[k].ev = "sub" /\ log[k].step = "setup" /\ Head(log[k].line) = "node"

(* C10: a deploy with both --from-source and --from-tar is rejected: no    *)
(* deployment invocation is issued.  Checked under Spec.                   *)
C10_TwoModesRejected ==
    (subcommand = "deploy" /\ source_dir # NoPath /\ tar_dir # NoPath) =>
        \A i \in DOMAIN log : ~IsDeployInvocation(log[i])

----------------------------------------------------------------------------
(* C11: for required <= expected the classifier gives RED (BelowRequired)  *)
(* iff actual < required, YELLOW (BelowExpected) iff required <= actual <  *)
(* expected and GREEN (MeetsExpected) iff actual >= expected.  Checked     *)
(* under ClassifySpec.                                                     *)
C11_Classifier ==
    \A i \in DOMAIN table :
        LET c == table[i]
        IN  c.required <= c.expected =>
                /\ c.color = "RED" <=> c.actual < c.required
                /\ c.color = "YELLOW" <=> (c.required <= c.actual /\ c.actual < c.expected)
                /\ c.color = "GREEN" <=> c.actual >= c.expected

(* actual = required, below expected: BelowExpected *)
C11_Witness ==
    \E i \in DOMAIN table :
        /\ table[i].actual = table[i].required
        /\ table[i].required < table[i].expected
        /\ table[i].color = "YELLOW"

----------------------------------------------------------------------------
(* C12: when the path the run works on (the source directory, or the       *)
(* archive when no source directory is given) is relative, every           *)
(* deployment invocation is handed the absolute path made of the working   *)
(* directory and the argument, which exists; when the resolution failed,   *)
(* no deployment invocation was issued.  Checked under Spec.               *)
ResolutionMessages ==
    {"failed to get current directory", "failed to canoicalize source directory"}

ExpectedAbs(arg) ==
    LET named(c) == c # "."
    IN  Abs(Cwd.comps \o SelectSeq(arg.comps, named))

C12_RelativePathResolved ==
    LET from_source == source_dir # NoPath /\ ~source_dir.abs
        from_tar == source_dir = NoPath /\ tar_dir # NoPath /\ ~tar_dir.abs
        deploys == {i \in DOMAIN log : IsDeployInvocation(log[i])}
        resolution_failed ==
            \E i \in DOMAIN log : log[i].ev = "panic" /\ log[i].step \in ResolutionMessages
    IN  /\ from_source =>
              \A i \in deploys :
                  LET e == ExpectedAbs(source_dir)
                  IN  /\ e.comps \in ExistingPaths
                      /\ log[i].line \in {compose_up_file_line(e), yarn_arg(e),
                                          setup_args(e, force)}
        /\ from_tar =>
              \A i \in deploys :
                  LET e == ExpectedAbs(tar_dir)
                  IN  /\ e.comps \in ExistingPaths
                      /\ log[i].step = "docker load" =>
                            log[i].line = <<"docker", "load", "--input", to_str(e)>>
        /\ ((from_source \/ from_tar) /\ resolution_failed) => deploys = {}

(* --from-tar ./dist: the image load is handed <cwd>/dist *)
C12_Witness ==
    /\ source_dir = NoPath
    /\ tar_dir = Rel(<<".", "dist">>)
    /\ \E i \in DOMAIN log :
          log[i] = Event("spawn", "docker load",
                         <<"docker", "load", "--input", "/home/op/dist">>, "")

----------------------------------------------------------------------------
(* C13: a `down` run does one thing, a single `docker-compose -p tower     *)
(* down` invocation (no table, no probe, nothing printed), and ends        *)
(* Succeeded iff that invocation exited zero, Failed when it could not be  *)
(* spawned or exited nonzero; so does every run of a succession of `down`  *)
(* runs.  Checked under DownSpec.                                          *)
C13_DownOnly ==
    LET ends == {i \in DOMAIN log : log[i].ev = "end"}
        invocations == {i \in DOMAIN log : IsInvocation(log[i])}
        conclusions == {i \in DOMAIN log : log[i].ev \in {"spawnerr", "exit"}}
        outcome(i) == IF log[i].ev = "exit" /\ log[i].status = "ok"
                      THEN "Succeeded" ELSE "Failed"
        running == IF pc = "main" /\ child = NoChild THEN 0 ELSE 1
    IN  /\ table = <<>>
        /\ \A i \in DOMAIN log :
              /\ log[i].ev \in {"spawn", "spawnerr", "sub", "exit", "panic", "end"}
              /\ log[i].ev \in {"spawn", "spawnerr", "exit"} =>
                    (log[i].step = "compose down"
                     /\ log[i].line = <<"docker-compose", "-p", "tower", "down">>)
        /\ Cardinality(invocations) = Cardinality(ends) + running
        /\ \A i \in conclusions :
              LET later == {e \in ends : e > i}
              IN  IF later = {} THEN pc = outcome(i)
                  ELSE \E e \in later :
                          /\ \A f \in later : e <= f
                          /\ log[e].step = outcome(i)
        /\ pc \in {"Succeeded", "Failed"} =>
              \E i \in conclusions : \A e \in ends : e < i

(* two `down` runs in succession, the compose tool exiting zero in both *)
C13_Witness ==
    /\ pc = "Succeeded"
    /\ \E e \in DOMAIN log : log[e] = Event("end", "Succeeded", <<>>, "")
    /\ Cardinality({i \in DOMAIN log :
                       log[i] = Event("exit", "compose down", compose_down_line, "ok")}) = 2

----------------------------------------------------------------------------
(* C14: the compose probe is invoked only after the docker probe exited    *)
(* zero; a docker probe that cannot be spawned or exits nonzero fails the  *)
(* run with "docker is not running" and no compose probe; a compose probe  *)
(* that cannot be spawned or exits nonzero fails it with "docker-compose   *)
(* was not installed"; the check is passed only after both exited zero;    *)
(* with or without force.  Checked under Spec.                             *)
C14_RuntimeProbes ==
    LET failed(step) == {i \in DOMAIN log :
                            /\ log[i].step = step
                            /\ \/ log[i].ev = "spawnerr"
                               \/ log[i].ev = "exit" /\ log[i].status = "nonzero"}
        docker_ok == {i \in DOMAIN log :
                         log[i] = Event("exit", "docker info", <<"docker", "info">>, "ok")}
        compose_ok == {i \in DOMAIN log :
                          log[i] = Event("exit", "docker-compose version",
                                         <<"docker-compose", "version">>, "ok")}
        compose_invoked == {i \in DOMAIN log :
                               IsInvocation(log[i]) /\ log[i].step = "docker-compose version"}
        passed == {i \in DOMAIN log : log[i] = println("docker-compose was installed")}
        later == {i \in DOMAIN log :
                     log[i].step = "docker inspect" \/ IsDeployInvocation(log[i])}
    IN  /\ \A i \in compose_invoked : \E d \in docker_ok : d < i
        /\ failed("docker info") # {} =>
              /\ pc = "Failed"
              /\ Last(log) = panic("docker is not running")
              /\ compose_invoked = {}
        /\ failed("docker-compose version") # {} =>
              /\ pc = "Failed"
              /\ Last(log) = panic("docker-compose was not installed")
        /\ \A i \in passed : \E d \in docker_ok : \E c \in compose_ok : d < c /\ c < i
        /\ \A i \in later : \E p \in passed : p < i

(* a forced run whose compose probe exited nonzero after docker answered *)
C14_Witness ==
    /\ force
    /\ pc = "Failed"
    /\ \E d, c \in DOMAIN log :
          /\ d < c
          /\ log[d].ev = "exit" /\ log[d].step = "docker info" /\ log[d].status = "ok"
          /\ log[c].ev = "exit" /\ log[c].step = "docker-compose version"
          /\ log[c].status = "nonzero"

----------------------------------------------------------------------------
(* C15: the images are probed in the order of the list, each at most once; *)
(* after the first probe that exits nonzero or cannot be spawned the image *)
(* is reported missing (nothing is raised), the result is false and no     *)
(* later image is probed; the result is true only after all four probes    *)
(* exited zero.  Checked under Spec.                                       *)
RequiredImages ==
    <<"tower:0.2.3", "prismagraphql/prisma:1.34", "postgres:10.3",
      "openresty/openresty:alpine">>

C15_ImageCheckShortCircuits ==
    LET probes == {i \in DOMAIN log : IsInvocation(log[i]) /\ log[i].step = "docker inspect"}
        missing == {i \in DOMAIN log :
                       /\ log[i].step = "docker inspect"
                       /\ \/ log[i].ev = "spawnerr"
                          \/ log[i].ev = "exit" /\ log[i].status = "nonzero"}
        present == {i \in DOMAIN log :
                       /\ log[i].step = "docker inspect"
                       /\ log[i].ev = "exit" /\ log[i].status = "ok"}
        rank(i) == Cardinality({j \in probes : j <= i})
    IN  /\ \A i \in probes :
              /\ rank(i) <= Len(RequiredImages)
              /\ log[i].line = <<"docker", "inspect", "--type=image", RequiredImages[rank(i)]>>
        /\ \A m \in missing :
              /\ \A i \in probes : i <= m
              /\ images_ok = "false"
              /\ log[m + 1] = println(log[m].line[4] \o " image is missing")
        /\ images_ok = "false" => missing # {}
        /\ images_ok = "true" =>
              /\ missing = {}
              /\ Cardinality(present) = Len(RequiredImages)
              /\ \E i \in DOMAIN log : log[i] = println("all image exists")

(* the probe of the second image could not be spawned: false, two probes *)
C15_Witness ==
    /\ images_ok = "false"
    /\ Cardinality({i \in DOMAIN log :
                       IsInvocation(log[i]) /\ log[i].step = "docker inspect"}) = 2
    /\ \E i \in DOMAIN log :
          log[i] = Event("spawnerr", "docker inspect",
                         <<"docker", "inspect", "--type=image", "prismagraphql/prisma:1.34">>, "")

----------------------------------------------------------------------------
(* C16: the deployment invocations of a run are, in order, the chain of    *)
(* its mode, which the arguments alone decide, cut short only by a failed  *)
(* step or a failed path resolution: the same after a check_images() that  *)
(* returned false as after one that returned true.  A false result ends    *)
(* with main at the dispatch, and a run that Failed after it was failed by *)
(* the resolution or by a sequencer step.  Checked under Spec.             *)
DeployKey(e) ==
    IF e.step = "compose up"
    THEN (IF e.line[5] = "-" THEN "compose up, piped" ELSE "compose up, file")
    ELSE e.step

ModeChain ==
    IF source_dir # NoPath THEN <<"compose up, file", "build", "setup">>
    ELSE IF tar_dir # NoPath /\ ~tar_dir.abs THEN <<"docker load", "compose up, piped">>
    ELSE <<"compose up, piped">>

SequencerMessages ==
    {"failed to start tower containers", "failed to build tower from source code",
     "failed to run setup script", "failed to load docker images"}

C16_ImageCheckNotGating ==
    LET deploys == {i \in DOMAIN log : IsDeployInvocation(log[i])}
        rank(i) == Cardinality({j \in deploys : j <= i})
        reports == {i \in DOMAIN log :
                       \E k \in DOMAIN RequiredImages :
                           log[i] = println(RequiredImages[k] \o " image is missing")}
    IN  /\ \A i \in deploys :
              /\ rank(i) <= Len(ModeChain)
              /\ DeployKey(log[i]) = ModeChain[rank(i)]
        /\ (subcommand = "deploy" /\ pc = "Succeeded") =>
              Cardinality(deploys) = Len(ModeChain)
        /\ \A i \in reports : log[i + 1] = println("> starting tower containers...")
        /\ (images_ok \in {"true", "false"} /\ pc = "Failed") =>
              /\ Last(log).ev = "panic"
              /\ Last(log).step \in SequencerMessages \cup ResolutionMessages

(* a from-source run that succeeded although an image was missing *)
C16_Witness ==
    /\ images_ok = "false"
    /\ source_dir # NoPath
    /\ pc = "Succeeded"
    /\ Cardinality({i \in DOMAIN log : IsDeployInvocation(log[i])}) = 3

----------------------------------------------------------------------------
(* C17: a run binds the required ports in order; a bind fails iff the port *)
(* had a listener at that moment; when the filter has ended, the run's     *)
(* unavailable ports are exactly the required ports whose bind failed (so  *)
(* <<8811>> when another process listened on 8811, and the unforced gate   *)
(* fails), and the run holds no socket: once every run is through, the     *)
(* listeners of the host are those of the other processes.  Checked under  *)
(* PortSpec.                                                               *)
ProbeDecided(r) == probe[r].pc \in {"checked", "passed", "failed"}

C17_PortProbe ==
    /\ \A r \in Runs :
          LET q == probe[r]
              failed_binds == {k \in DOMAIN q.binds : ~q.binds[k].ok}
          IN  /\ \A k \in DOMAIN q.binds :
                    /\ q.binds[k].port = RequiredPorts[k]
                    /\ q.binds[k].ok <=> q.binds[k].holder = "free"
              /\ ProbeDecided(r) =>
                    /\ Len(q.binds) = Len(RequiredPorts)
                    /\ Range(q.unavailable) = {q.binds[k].port : k \in failed_binds}
                    /\ Len(q.unavailable) = Cardinality(failed_binds)
                    /\ q.held = {}
                    /\ (\E k \in DOMAIN q.binds :
                           q.binds[k].port = 8811 /\ q.binds[k].holder = "process")
                       => q.unavailable = <<8811>>
              /\ (q.pc \in {"passed", "failed"} /\ ~force /\ q.unavailable # <<>>)
                    => q.pc = "failed"
    /\ (\A r \in Runs : ProbeDecided(r)) => ports_in_use = bound_ports

(* another process listens on 8811: the unforced gate failed, nothing held *)
C17_Witness ==
    /\ ~force
    /\ \E r \in Runs :
          /\ probe[r].pc = "failed"
          /\ probe[r].msg = "Some ports are not available."
          /\ probe[r].binds[1].holder = "process"
          /\ probe[r].unavailable = <<8811>>
          /\ probe[r].held = {}
          /\ 8811 \in bound_ports

(* C18: the probes of concurrent runs exclude nothing and reserve nothing: *)
(* a bind fails because another process or the probe of another run,       *)
(* which bound it successfully, holds the port; the unforced gate of a run *)
(* with enough cpu, memory and storage fails on the ports iff one of its   *)
(* own binds failed, whoever held the port; a run that passed holds no     *)
(* port.  Checked under PortSpec.                                          *)
C18_ProbeRaces ==
    \A r \in Runs :
        LET q == probe[r]
        IN  /\ \A k \in DOMAIN q.binds :
                  ~q.binds[k].ok =>
                      /\ q.binds[k].holder \in {"process", "run"}
                      /\ q.binds[k].holder = "run" =>
                            \E o \in Runs \ {r} : \E j \in DOMAIN probe[o].binds :
                                /\ probe[o].binds[j].port = q.binds[k].port
                                /\ probe[o].binds[j].ok
            /\ q.pc \in {"passed", "failed"} =>
                  ( (q.pc = "failed" /\ q.msg = "Some ports are not available.")
                    <=> ( /\ ~force
                          /\ actual_cpu_cores(processors) >= RequiredCpuCores
                          /\ total_memory >= RequiredMemory
                          /\ SumSeq(disks) >= RequiredStorage
                          /\ \E k \in DOMAIN q.binds : ~q.binds[k].ok ) )
            /\ q.pc = "passed" => q.held = {}

(* one run failed because only the other run's probe held 8811; the other  *)
(* run passed, and another process has bound 8811 since                    *)
C18_Witness ==
    /\ ~force
    /\ \E r, o \in Runs :
          /\ r # o
          /\ probe[r].pc = "failed"
          /\ probe[r].msg = "Some ports are not available."
          /\ probe[r].binds[1].holder = "run"
          /\ probe[o].pc = "passed"
          /\ probe[o].binds[1].ok
          /\ probe[o].binds[1].port \in bound_ports

----------------------------------------------------------------------------
(* C19: when every external process exits, every run ends Succeeded or     *)
(* Failed; no invocation is issued twice; and while a process is running,  *)
(* the only step of the run is that process's exit.  Checked under         *)
(* LiveSpec.                                                               *)
NoStepTwice ==
    \A i, j \in {k \in DOMAIN log : IsInvocation(log[k])} :
        (log[i].step = log[j].step /\ log[i].line = log[j].line) => i = j

C19_Terminates ==
    /\ <>(pc \in {"Succeeded", "Failed"})
    /\ []NoStepTwice
    /\ [][child # NoChild => ChildExits]_vars

(* a from-archive run that went through every step once and succeeded *)
C19_Witness ==
    /\ subcommand = "deploy"
    /\ pc = "Succeeded"
    /\ child = NoChild
    /\ images_ok = "true"
    /\ Cardinality({k \in DOMAIN log : IsInvocation(log[k])}) = 8

----------------------------------------------------------------------------
(* C20: the cpu value the gate shows and compares is the host's logical    *)
(* processor count, for every count, 256 and above included: the unforced  *)
(* gate fails on cpu exactly when the true count is below the required 2.  *)
(* Checked under GateSpec.                                                 *)
C20_CpuIsProcessorCount ==
    GateRan =>
        /\ GateCpu = processors
        /\ ~force => ((pc = "Failed" /\ Last(log) = panic("CPU cores not enough."))
                        <=> processors < RequiredCpuCores)

====
